---- MODULE Spec2Model ----
(***************************************************************************)
(* WeRadio browser client (src/frontend/public/js/app.js): the live        *)
(* playback state machine, the status poller with its interpolated clock,  *)
(* and the queue/library mutation coordinator.                             *)
(*                                                                         *)
(* Every action is one run-to-completion handler of the page: an event     *)
(* listener, a timer callback, or the continuation of an async function    *)
(* after an await.  Promise reactions run as microtasks right after the    *)
(* handler that settles the promise, so they belong to the same action.    *)
(***************************************************************************)
EXTENDS Integers, Sequences, FiniteSets, TLC

(***************************************************************************)
(* Bounds of the model.                                                    *)
(***************************************************************************)
MaxSessions == 2        \* Hls instances ever created
MaxRebuildTimers == 1   \* pending 2000 ms rebuild timers
MaxPlayTimers == 1      \* pending 500 ms attemptPlay timers
MaxPlayPending == 2     \* unsettled audio.play() promises
MaxListeners == 2       \* loadedmetadata listeners (native branch)
MaxInFlight == 2        \* /status fetches in flight
MaxFastTimers == 2      \* pending 3000 ms updateMetadata timers
PageStartTime == 1000000 \* Date.now() when the script runs, ms
ObservedMs == 10000     \* length of the observed interval, ms
MaxTracksFetches == 1   \* /tracks fetches in flight
MaxRefetchTimers == 1   \* pending 5000 ms listing refetch timers
MaxOps == 1             \* mutation calls in progress
MaxCloseTimers == 2     \* pending 300 ms dialog close timers
MaxProfileRequests == 1 \* /auth/profile requests in flight

VARIABLES
    \* ---- playback (app.js 6-7, 473-660) ----
    pageLoaded,         \* DOMContentLoaded has been dispatched
    platform,           \* which branch of initHLS this browser takes
    isPlaying,          \* let isPlaying
    hls,                \* let hls: 0 is null, otherwise the session id
    sess,               \* every Hls instance: "none", "live", "failed" or "destroyed"
    manifestPending,    \* sessions whose MANIFEST_PARSED has not fired yet
    manifestRetry,      \* manifest load retries each session has used
    rebuildTimers,      \* pending rebuild timers, by the session whose error set them
    playTimers,         \* pending setTimeout(attemptPlay, 500)
    audioSrcSet,        \* audio.src points at the manifest (native branch)
    nativeListeners,    \* loadedmetadata listeners registered (native branch)
    metadataPending,    \* a loadedmetadata event is due (native branch)
    paused,             \* audio.paused
    playPending,        \* unsettled audio.play() promises, in call order
    playAborted,        \* play() promises rejected by pause()/load(), reactions due
    status,             \* what statusDiv shows
    playBtnAnimation,   \* playBtn.style.animation: "none" or "pulse"
    userStopped,        \* history: the last user request was a stop
    stallSeen,          \* history: a bufferStalledError event has been handled
    mediaRecoverSeen,   \* history: a fatal media error has been handled
    lastMediaEvent,     \* history: the last of FRAG_LOADED, waiting, playing
                        \* handled since the last stop
    \* ---- status poller and clock (app.js 666-743, 847-856) ----
    statusInFlight,     \* updateMetadata calls awaiting their fetch
    fastTimers,         \* pending setTimeout(updateMetadata, 3000)
    trackTitle,         \* #track-title textContent
    currentTrackDuration,
    serverCurrentTime,
    lastUpdateTime,
    nextTrackShown,     \* #nextTrack display and text
    queueShown,         \* #queueList content
    now,                \* Date.now(), in ms
    progressFill,       \* #progressFill width, as <<position ms, duration ms>>
    frameRequests,      \* pending requestAnimationFrame(updateProgress) callbacks
    lastSnapshot,       \* history: last /status response that carried a track and a time
    renderedSincePoll,  \* history: updateProgress has rendered since the last baseline write
    superseded,         \* history: fetches in flight issued before one already applied
    tickLog,            \* history: "none", then "suppressed" once a 5-second tick
                        \* found a modal open, then "resumed" once a later tick polled
    \* ---- authentication and modals (app.js 8-9, 101-145, 262-280) ----
    currentUser,        \* let currentUser is set
    authToken,          \* let authToken is set
    profileInFlight,    \* PUT /auth/profile requests not answered yet, each
                        \* with whether it was sent with a token
    changeHideTimers,   \* pending 2000 ms timers of handleChangeCredentials
    verifyState,        \* checkAuthStatus: "unstarted", "pending" or "done"
    authModalOpen,      \* #authModal has class active
    settingsModalOpen,  \* #settingsModal has class active
    changeModalOpen,    \* #changeCredentialsModal has class active
    overlayActive,      \* #confirmOverlay has class active
    dialogShown,        \* the dialog the confirm overlay shows, "none" when closed
    confirmResolve,     \* let confirmResolve: whose promise it resolves, or NoResolve
    closeTimers,        \* pending 300 ms timers of closeConfirmDialog, with their result
    \* ---- library and queue mutations (app.js 858-1119) ----
    allTracks,          \* let allTracks
    serverTracks,       \* the backend's library listing
    tracksInFlight,     \* loadTracksList calls awaiting their fetch
    refetchTimers,      \* pending listing refetch timers, each with its delay in ms
    ops,                \* addTrackToQueue / removeFromQueue / removeTrack calls in progress
    seenRefs,           \* history: every <<index, filepath>> a rendered button has carried
    \* ---- volume and upload (app.js 471, 662-664, 745-816) ----
    volume,             \* audio.volume, in percent
    selectedFile,       \* let selectedFile is set
    uploading           \* an uploadFile call awaits its request

playVars == <<pageLoaded, platform, isPlaying, hls, sess, manifestPending,
              manifestRetry, rebuildTimers, playTimers, audioSrcSet, nativeListeners,
              metadataPending, paused, playPending, playAborted, status,
              playBtnAnimation, userStopped, stallSeen, mediaRecoverSeen,
              lastMediaEvent>>
sinkVars == <<paused, playPending, playAborted>>
nativeVars == <<audioSrcSet, nativeListeners, metadataPending>>
sessVars == <<hls, sess, manifestPending, manifestRetry>>
snapshotVars == <<trackTitle, currentTrackDuration, serverCurrentTime,
                  lastUpdateTime, nextTrackShown, queueShown>>
pollVars == <<statusInFlight, superseded, fastTimers, trackTitle,
              currentTrackDuration, serverCurrentTime, lastUpdateTime, nextTrackShown, queueShown,
              now, progressFill, frameRequests, lastSnapshot,
              renderedSincePoll, tickLog>>
modalVars == <<authModalOpen, settingsModalOpen, changeModalOpen>>
dialogVars == <<overlayActive, dialogShown, confirmResolve, closeTimers>>
authVars == <<currentUser, authToken, profileInFlight, changeHideTimers,
              verifyState>>
libVars == <<authVars, modalVars, dialogVars, allTracks, serverTracks,
             tracksInFlight, refetchTimers, ops, seenRefs>>
uploadVars == <<volume, selectedFile, uploading>>
vars == <<playVars, pollVars, libVars, uploadVars>>

SessionIds == 1..MaxSessions
Platforms == {"hlsjs", "native", "none"}
NoSnapshot == [e |-> -1, d |-> -1, t0 |-> -1]

Range(s) == {s[i] : i \in 1..Len(s)}
Min(a, b) == IF a <= b THEN a ELSE b
Last(s) == s[Len(s)]

RECURSIVE SumOver(_, _)
SumOver(f, S) ==
    IF S = {} THEN 0
    ELSE LET x == CHOOSE y \in S : TRUE IN f[x] + SumOver(f, S \ {x})

\* LiveSession creation and destruction counts (spec section 8)
Created == Cardinality({s \in SessionIds : sess[s] # "none"})
Destroyed == Cardinality({s \in SessionIds : sess[s] = "destroyed"})
TotalRebuildTimers == SumOver(rebuildTimers, SessionIds)

(***************************************************************************)
(* The audio sink.  audio.play() returns a promise that stays pending      *)
(* until playback begins; a play() the browser does not allow is rejected  *)
(* at once and leaves audio.paused alone.  audio.pause() and the media     *)
(* load algorithm set audio.paused and reject every pending play promise.  *)
(***************************************************************************)
CanAddPlay(n) == Len(playPending) + Len(playAborted) + n <= MaxPlayPending

SinkLoad ==
    /\ paused' = TRUE
    /\ playAborted' = playAborted \o playPending
    /\ playPending' = <<>>

\* the media the sink is attached to can start playing
CanPlay ==
    \/ platform = "native" /\ audioSrcSet /\ ~metadataPending
    \/ platform = "hlsjs"
         /\ \E s \in SessionIds : sess[s] = "live" /\ s \notin manifestPending

\* updateMetadata() called n times: n more /status fetches in flight
UpdateMetadataCalls(n) ==
    /\ statusInFlight' = statusInFlight + n
    /\ UNCHANGED superseded
CanCallUpdateMetadata(n) == statusInFlight + n <= MaxInFlight

(***************************************************************************)
(* initHLS (473-590), entered with session table sess0 and pending         *)
(* manifests mp0 (the caller may just have destroyed a session).           *)
(***************************************************************************)
NewSessionId(sess0) == CHOOSE s \in SessionIds :
    /\ sess0[s] = "none"
    /\ \A r \in SessionIds : sess0[r] = "none" => s <= r

CanInitHLS ==
    /\ platform = "hlsjs" => Created < MaxSessions
    /\ platform = "native" => nativeListeners < MaxListeners

InitHLS(sess0, mp0) ==
    \* a destroyed instance has aborted its loaders; a new one has used no retry
    /\ manifestRetry' = [s \in SessionIds |->
                            IF sess0[s] = "live" THEN manifestRetry[s] ELSE 0]
    /\ IF platform = "hlsjs"
       THEN LET s == NewSessionId(sess0) IN
            /\ hls' = s
            /\ sess' = [sess0 EXCEPT ![s] = "live"]
            /\ manifestPending' = mp0 \cup {s}
            /\ UNCHANGED nativeVars
       ELSE IF platform = "native"
       THEN /\ audioSrcSet' = TRUE
            /\ nativeListeners' = nativeListeners + 1
            /\ metadataPending' = TRUE
            /\ hls' = hls /\ sess' = sess0 /\ manifestPending' = mp0
       ELSE /\ hls' = hls /\ sess' = sess0 /\ manifestPending' = mp0
            /\ UNCHANGED nativeVars

\* assigning audio.src runs the media load algorithm
InitHLSSink == IF platform = "native" THEN SinkLoad ELSE UNCHANGED sinkVars

(***************************************************************************)
(* autoplayStream (592-613), called n times in one task.  allowed is the   *)
(* browser's autoplay decision for that task.                              *)
(***************************************************************************)
AutoplayStream(n, allowed) ==
    IF allowed
    THEN /\ CanAddPlay(n)
         /\ status' = "auto_starting"
         /\ UNCHANGED playBtnAnimation
         /\ paused' = FALSE
         /\ playPending' = playPending \o [i \in 1..n |-> "auto"]
         /\ UNCHANGED playAborted
    ELSE /\ status' = "click_to_listen"
         /\ playBtnAnimation' = "pulse"
         /\ UNCHANGED sinkVars

\* attemptPlay (635-652)
AttemptPlay(allowed) ==
    IF allowed
    THEN /\ CanAddPlay(1)
         /\ status' = "connecting"
         /\ playBtnAnimation' = "none"
         /\ paused' = FALSE
         /\ playPending' = Append(playPending, "attempt")
         /\ UNCHANGED playAborted
    ELSE /\ status' = "play_error"
         /\ playBtnAnimation' = "pulse"
         /\ UNCHANGED sinkVars

\* startStream (623-633)
StartStream ==
    IF hls = 0
    THEN /\ CanInitHLS
         /\ playTimers < MaxPlayTimers
         /\ InitHLS(sess, manifestPending)
         /\ InitHLSSink
         /\ playTimers' = playTimers + 1
         /\ UNCHANGED <<status, playBtnAnimation>>
    ELSE /\ \E allowed \in BOOLEAN : AttemptPlay(allowed)
         /\ UNCHANGED <<sessVars, nativeVars, playTimers>>

\* a stop that destroys the session and clears the handle
StopStream_ReleasesSession ==
    /\ SinkLoad
    /\ status' = "stopped"
    /\ hls' = 0
    /\ sess' = [s \in SessionIds |-> IF s = hls THEN "destroyed" ELSE sess[s]]
    /\ manifestPending' = manifestPending \ {hls}
    /\ UNCHANGED playBtnAnimation
    /\ UNCHANGED <<manifestRetry, nativeVars, playTimers>>

\* stopStream (654-660)
StopStream ==
    /\ SinkLoad
    /\ status' = "stopped"
    /\ UNCHANGED playBtnAnimation
    /\ UNCHANGED <<sessVars, nativeVars, playTimers>>

\* togglePlay (615-621): the user clicks the play button
TogglePlay ==
    /\ IF ~isPlaying
       THEN StartStream /\ UNCHANGED isPlaying /\ userStopped' = FALSE
       ELSE StopStream /\ isPlaying' = FALSE /\ userStopped' = TRUE
    /\ UNCHANGED <<pageLoaded, platform, rebuildTimers, stallSeen,
                   mediaRecoverSeen>>
    /\ lastMediaEvent' = IF isPlaying THEN "none" ELSE lastMediaEvent
    /\ UNCHANGED <<pollVars, libVars, uploadVars>>

\* the 500 ms timer of startStream fires (627-629)
PlayTimerFires ==
    /\ playTimers > 0
    /\ playTimers' = playTimers - 1
    /\ \E allowed \in BOOLEAN : AttemptPlay(allowed)
    /\ UNCHANGED <<pageLoaded, platform, isPlaying, sessVars, nativeVars,
                   rebuildTimers, userStopped, stallSeen,
                   mediaRecoverSeen, lastMediaEvent>>
    /\ UNCHANGED <<pollVars, libVars, uploadVars>>

\* hls.on(MANIFEST_PARSED) of session s (525-529)
ManifestParsed(s) ==
    /\ sess[s] = "live"
    /\ s \in manifestPending
    /\ manifestPending' = manifestPending \ {s}
    /\ manifestRetry' = [manifestRetry EXCEPT ![s] = 0]
    /\ \E allowed \in BOOLEAN : AutoplayStream(1, allowed)
    /\ UNCHANGED <<pageLoaded, platform, isPlaying, hls, sess, nativeVars,
                   rebuildTimers, playTimers, userStopped, stallSeen,
                   mediaRecoverSeen, lastMediaEvent>>
    /\ UNCHANGED <<pollVars, libVars, uploadVars>>

\* the loadedmetadata listeners of the native branch (586-588)
LoadedMetadata ==
    /\ metadataPending
    /\ metadataPending' = FALSE
    /\ \E allowed \in BOOLEAN : AutoplayStream(nativeListeners, allowed)
    /\ UNCHANGED <<pageLoaded, platform, isPlaying, sessVars, audioSrcSet,
                   nativeListeners, rebuildTimers, playTimers,
                   userStopped, stallSeen,
                   mediaRecoverSeen, lastMediaEvent>>
    /\ UNCHANGED <<pollVars, libVars, uploadVars>>

\* hls.on(FRAG_LOADED) of session s (575-580)
FragLoaded(s) ==
    /\ sess[s] = "live"
    /\ s \notin manifestPending
    /\ status' = IF isPlaying THEN "live" ELSE status
    /\ lastMediaEvent' = "frag"
    /\ UNCHANGED <<pageLoaded, platform, isPlaying, sessVars, nativeVars,
                   rebuildTimers, playTimers, sinkVars, playBtnAnimation,
                   userStopped, stallSeen,
                   mediaRecoverSeen>>
    /\ UNCHANGED <<pollVars, libVars, uploadVars>>

\* the frame of the listeners of the audio element
AudioEventFrame ==
    /\ UNCHANGED <<pageLoaded, platform, isPlaying, sessVars, nativeVars,
                   rebuildTimers, playTimers, sinkVars, playBtnAnimation,
                   userStopped, stallSeen, mediaRecoverSeen>>
    /\ UNCHANGED <<pollVars, libVars, uploadVars>>

\* audio.addEventListener('waiting') (819-824)
AudioWaiting ==
    /\ status' = IF isPlaying THEN "buffering" ELSE status
    /\ lastMediaEvent' = "waiting"
    /\ AudioEventFrame

\* a 'playing' listener without the isPlaying test
AudioPlaying_NoIntentCheck ==
    /\ status' = "live"
    /\ lastMediaEvent' = "playing"
    /\ AudioEventFrame

\* audio.addEventListener('playing') (826-831)
AudioPlaying ==
    /\ status' = IF isPlaying THEN "live" ELSE status
    /\ lastMediaEvent' = "playing"
    /\ AudioEventFrame

\* audio.addEventListener('error') (833-837)
AudioError ==
    /\ status' = "playback_error"
    /\ UNCHANGED lastMediaEvent
    /\ AudioEventFrame

(***************************************************************************)
(* The sink reports that playback began: every pending play promise is     *)
(* resolved and the reactions of autoplayStream (597-605) and attemptPlay  *)
(* (641-645) run in call order.                                            *)
(***************************************************************************)
PlayResolved ==
    /\ playPending # <<>>
    /\ ~paused
    /\ CanPlay
    /\ CanCallUpdateMetadata(Len(playPending))
    /\ isPlaying' = TRUE
    /\ status' = IF "auto" \in Range(playPending) THEN "live" ELSE status
    /\ playBtnAnimation' = IF "auto" \in Range(playPending) THEN "none"
                           ELSE playBtnAnimation
    /\ UpdateMetadataCalls(Len(playPending))
    /\ playPending' = <<>>
    /\ UNCHANGED <<pageLoaded, platform, sessVars, nativeVars, rebuildTimers,
                   playTimers, paused, playAborted, userStopped, stallSeen,
                   mediaRecoverSeen, lastMediaEvent>>
    /\ UNCHANGED <<fastTimers, snapshotVars, now, progressFill, frameRequests, lastSnapshot,
                   renderedSincePoll, tickLog, libVars, uploadVars>>

\* a catch handler that calls audio.play() again
PlayRejected_PlaysAgain ==
    /\ playAborted # <<>>
    /\ status' = IF Last(playAborted) = "auto" THEN "click_to_listen"
                 ELSE "play_error"
    /\ playBtnAnimation' = "pulse"
    /\ playAborted' = <<>>
    /\ playPending' = Append(playPending, Last(playAborted))
    /\ UNCHANGED <<pageLoaded, platform, isPlaying, sessVars, nativeVars,
                   rebuildTimers, playTimers, paused, userStopped, stallSeen,
                   mediaRecoverSeen, lastMediaEvent>>
    /\ UNCHANGED <<pollVars, libVars, uploadVars>>

\* the rejections queued by pause()/load() are delivered (606-612, 646-651)
PlayRejected ==
    /\ playAborted # <<>>
    /\ status' = IF Last(playAborted) = "auto" THEN "click_to_listen"
                 ELSE "play_error"
    /\ playBtnAnimation' = "pulse"
    /\ playAborted' = <<>>
    /\ UNCHANGED <<pageLoaded, platform, isPlaying, sessVars, nativeVars,
                   rebuildTimers, playTimers, paused, playPending,
                   userStopped, stallSeen,
                   mediaRecoverSeen, lastMediaEvent>>
    /\ UNCHANGED <<pollVars, libVars, uploadVars>>

(***************************************************************************)
(* hls.on(ERROR) of session s (531-568).  The handler acts on the global   *)
(* hls, not on the session that raised the event.                          *)
(***************************************************************************)
ErrorKinds == {"bufferStalled", "bufferStalledFatal", "nonFatal",
               "network", "media", "other"}

\* a fatal error stops the instance s that raised it; startLoad and
\* recoverMediaError (548, 552) restart the instance that hls refers to
Recover(s) ==
    /\ sess' = IF hls = s THEN sess ELSE [sess EXCEPT ![s] = "failed"]
    /\ manifestPending' = IF hls = s THEN manifestPending
                          ELSE manifestPending \ {s}
    /\ manifestRetry' = IF hls = s THEN manifestRetry
                        ELSE [manifestRetry EXCEPT ![s] = 0]
    /\ UNCHANGED hls

\* the handler without the early return of 535-538: a fatal
\* bufferStalledError, whose type is MEDIA_ERROR, reaches the switch
HlsError_NoStallFilter(s, kind) ==
    /\ sess[s] = "live"
    /\ CASE kind \in {"bufferStalled", "nonFatal"} ->
              UNCHANGED <<status, rebuildTimers, sessVars>>
         [] kind = "network" ->
              /\ status' = "reconnecting"
              /\ Recover(s)
              /\ UNCHANGED rebuildTimers
         [] kind \in {"media", "bufferStalledFatal"} ->
              /\ Recover(s)
              /\ UNCHANGED <<status, rebuildTimers>>
         [] kind = "other" ->
              /\ TotalRebuildTimers < MaxRebuildTimers
              /\ status' = "connection_error"
              /\ rebuildTimers' = [rebuildTimers EXCEPT ![s] = @ + 1]
              /\ sess' = [sess EXCEPT ![s] = "failed"]
              /\ manifestPending' = manifestPending \ {s}
              /\ manifestRetry' = [manifestRetry EXCEPT ![s] = 0]
              /\ UNCHANGED hls
    /\ UNCHANGED <<pageLoaded, platform, isPlaying, nativeVars,
                   playTimers, sinkVars, playBtnAnimation,
                   userStopped>>
    /\ stallSeen' = (stallSeen \/ kind \in {"bufferStalled", "bufferStalledFatal"})
    /\ mediaRecoverSeen' = (mediaRecoverSeen \/ kind = "media")
    /\ UNCHANGED lastMediaEvent
    /\ UNCHANGED <<pollVars, libVars, uploadVars>>

HlsError(s, kind) ==
    /\ sess[s] = "live"
    /\ CASE kind \in {"bufferStalled", "bufferStalledFatal", "nonFatal"} ->
              UNCHANGED <<status, rebuildTimers, sessVars>>
         [] kind = "network" ->      \* hls.startLoad()
              /\ status' = "reconnecting"
              /\ Recover(s)
              /\ UNCHANGED rebuildTimers
         [] kind = "media" ->        \* hls.recoverMediaError()
              /\ Recover(s)
              /\ UNCHANGED <<status, rebuildTimers>>
         [] kind = "other" ->
              \* "Errore irreversibile": the instance that raised the
              \* error delivers no more media; only the timer replaces it
              /\ TotalRebuildTimers < MaxRebuildTimers
              /\ status' = "connection_error"
              /\ rebuildTimers' = [rebuildTimers EXCEPT ![s] = @ + 1]
              /\ sess' = [sess EXCEPT ![s] = "failed"]
              /\ manifestPending' = manifestPending \ {s}
              /\ manifestRetry' = [manifestRetry EXCEPT ![s] = 0]
              /\ UNCHANGED hls
    /\ UNCHANGED <<pageLoaded, platform, isPlaying, nativeVars,
                   playTimers, sinkVars, playBtnAnimation,
                   userStopped>>
    /\ stallSeen' = (stallSeen \/ kind \in {"bufferStalled", "bufferStalledFatal"})
    /\ mediaRecoverSeen' = (mediaRecoverSeen \/ kind = "media")
    /\ UNCHANGED lastMediaEvent
    /\ UNCHANGED <<pollVars, libVars, uploadVars>>

HlsErrorEvent == \E s \in SessionIds, kind \in ErrorKinds : HlsError(s, kind)

(***************************************************************************)
(* The manifest retry policy that initHLS configures (489-491): hls.js     *)
(* retries a failed manifest load until manifestLoadingMaxRetry retries    *)
(* are used; a retried failure reaches the ERROR handler, if at all, as a  *)
(* non-fatal event, and the failure after the last retry reaches it as a   *)
(* fatal NETWORK_ERROR.                                                    *)
(***************************************************************************)
ManifestLoadingMaxRetry == 15

\* ManifestLoadFails with no retry: every failure is raised as fatal
ManifestLoadFails_FatalAtOnce(s) ==
    /\ sess[s] = "live"
    /\ s \in manifestPending
    /\ HlsError(s, "network")

ManifestLoadFails(s) ==
    /\ sess[s] = "live"
    /\ s \in manifestPending
    /\ IF manifestRetry[s] < ManifestLoadingMaxRetry
       THEN /\ manifestRetry' = [manifestRetry EXCEPT ![s] = @ + 1]
            /\ UNCHANGED <<pageLoaded, platform, isPlaying, hls, sess,
                           manifestPending, nativeVars, rebuildTimers,
                           playTimers, sinkVars, status, playBtnAnimation,
                   userStopped, stallSeen,
                   mediaRecoverSeen, lastMediaEvent>>
            /\ UNCHANGED <<pollVars, libVars, uploadVars>>
       ELSE HlsError(s, "network")

\* RebuildTimerFires without the isPlaying test of line 560
RebuildTimerFires_NoIntentCheck(s) ==
    /\ rebuildTimers[s] > 0
    /\ rebuildTimers' = [rebuildTimers EXCEPT ![s] = @ - 1]
    /\ CanInitHLS
    /\ InitHLS([sess EXCEPT ![hls] = "destroyed"], manifestPending \ {hls})
    /\ SinkLoad
    /\ UNCHANGED <<pageLoaded, platform, isPlaying, playTimers, status,
                   playBtnAnimation,
                   userStopped, stallSeen,
                   mediaRecoverSeen, lastMediaEvent>>
    /\ UNCHANGED <<pollVars, libVars, uploadVars>>

\* the 2000 ms timer of the default fatal branch fires (559-564)
RebuildTimerFires(s) ==
    /\ rebuildTimers[s] > 0
    /\ rebuildTimers' = [rebuildTimers EXCEPT ![s] = @ - 1]
    /\ IF isPlaying
       THEN /\ CanInitHLS
            \* hls.destroy(): the instance is torn down, its listeners are
            \* removed and the media element is detached and reloaded
            /\ InitHLS([sess EXCEPT ![hls] = "destroyed"],
                       manifestPending \ {hls})
            /\ SinkLoad
       ELSE UNCHANGED <<sessVars, nativeVars, sinkVars>>
    /\ UNCHANGED <<pageLoaded, platform, isPlaying, playTimers, status,
                   playBtnAnimation,
                   userStopped, stallSeen,
                   mediaRecoverSeen, lastMediaEvent>>
    /\ UNCHANGED <<pollVars, libVars, uploadVars>>

(***************************************************************************)
(* Session Status Poller: updateMetadata (671-726).  A /status response    *)
(* body is a record; title "" is a missing title, duration 0 a missing     *)
(* duration, hasTime says whether current_time is defined.                 *)
(***************************************************************************)
StatusBody(m, ti, du, ht, ct, nt, q) ==
    [metadata |-> m, title |-> ti, duration |-> du, hasTime |-> ht,
     current_time |-> ct, next_track |-> nt, queue |-> q]

\* a JSON body that carries none of the status fields, e.g. {"error": "..."}
ErrorBody == StatusBody(FALSE, "", 0, FALSE, 0, "none", "none")

\* the same lines with the elapsed-time write moved into the title test
ApplyStatus_ElapsedOnTrackChange(data) ==
    LET newTitle == IF data.title = "" THEN "Unknown" ELSE data.title IN
    /\ IF data.metadata /\ newTitle # trackTitle
       THEN /\ currentTrackDuration' = data.duration
            /\ IF data.hasTime
               THEN /\ serverCurrentTime' = data.current_time
                    /\ lastUpdateTime' = now
               ELSE UNCHANGED <<serverCurrentTime, lastUpdateTime>>
       ELSE UNCHANGED <<currentTrackDuration, serverCurrentTime,
                        lastUpdateTime>>
    /\ trackTitle' = IF data.metadata THEN newTitle ELSE trackTitle
    /\ nextTrackShown' = IF data.next_track # "none" THEN data.next_track
                         ELSE "hidden"
    /\ queueShown' = IF data.queue # "none" THEN data.queue ELSE "no_queue"

\* the lines 676-718 of updateMetadata, applied to the parsed body
ApplyStatus(data) ==
    LET newTitle == IF data.title = "" THEN "Unknown" ELSE data.title IN
    /\ IF data.metadata
       THEN /\ currentTrackDuration' =
                 IF newTitle # trackTitle THEN data.duration
                 ELSE currentTrackDuration
            /\ trackTitle' = newTitle
            /\ IF data.hasTime
               THEN /\ serverCurrentTime' = data.current_time
                    /\ lastUpdateTime' = now
               ELSE UNCHANGED <<serverCurrentTime, lastUpdateTime>>
       ELSE UNCHANGED <<currentTrackDuration, trackTitle, serverCurrentTime,
                        lastUpdateTime>>
    /\ nextTrackShown' = IF data.next_track # "none" THEN data.next_track
                         ELSE "hidden"
    /\ queueShown' = IF data.queue # "none" THEN data.queue ELSE "no_queue"

\* One of the fetches in flight is answered; nothing orders the responses
\* of concurrent fetches.  The fetches issued before one whose response was
\* applied are the oldest in flight, so their number identifies them.  The
\* answered fetch is one of these, or the j-th oldest of the others; with
\* applied, its handler runs the try block and the older ones are superseded.
AnswerFetch(applied) ==
    /\ statusInFlight > 0
    /\ statusInFlight' = statusInFlight - 1
    /\ \/ superseded > 0 /\ superseded' = superseded - 1
       \/ \E j \in 1..(statusInFlight - superseded) :
             superseded' = IF applied THEN superseded + (j - 1) ELSE superseded

\* updateMetadata without the isPlaying test of line 720
UpdateMetadataOk_AlwaysReschedules(data) ==
    /\ AnswerFetch(TRUE)
    /\ ApplyStatus(data)
    /\ fastTimers' = Min(fastTimers + 1, MaxFastTimers)
    /\ lastSnapshot' =
         IF data.metadata
         THEN IF data.hasTime
              THEN [e |-> data.current_time, d |-> data.duration, t0 |-> now]
              ELSE NoSnapshot
         ELSE lastSnapshot
    /\ renderedSincePoll' = IF data.metadata THEN FALSE ELSE renderedSincePoll
    /\ UNCHANGED tickLog
    /\ UNCHANGED <<now, progressFill, frameRequests, playVars, libVars, uploadVars>>

\* the fetch resolved and the body parsed: 674-722
UpdateMetadataOk(data) ==
    /\ isPlaying => fastTimers < MaxFastTimers
    /\ AnswerFetch(TRUE)
    /\ ApplyStatus(data)
    /\ fastTimers' = IF isPlaying THEN fastTimers + 1 ELSE fastTimers
    /\ lastSnapshot' =
         IF data.metadata
         THEN IF data.hasTime
              THEN [e |-> data.current_time, d |-> data.duration, t0 |-> now]
              ELSE NoSnapshot
         ELSE lastSnapshot
    /\ renderedSincePoll' = IF data.metadata THEN FALSE ELSE renderedSincePoll
    /\ UNCHANGED tickLog
    /\ UNCHANGED <<now, progressFill, frameRequests, playVars, libVars, uploadVars>>

\* the fetch rejected or the body did not parse: the catch at 723-725
UpdateMetadataFail ==
    /\ AnswerFetch(FALSE)
    /\ UNCHANGED <<fastTimers, snapshotVars, now, progressFill, frameRequests, lastSnapshot,
                   renderedSincePoll, tickLog, playVars, libVars,
                   uploadVars>>

\* the backend answered with an error status and a JSON error body; fetch
\* resolves and updateMetadata never looks at response.ok (673-674)
UpdateMetadataErrorResponse == UpdateMetadataOk(ErrorBody)

\* setTimeout(updateMetadata, 3000) fires (721)
FastTimerFires ==
    /\ fastTimers > 0
    /\ CanCallUpdateMetadata(1)
    /\ fastTimers' = fastTimers - 1
    /\ UpdateMetadataCalls(1)
    /\ UNCHANGED <<snapshotVars, now, progressFill, frameRequests, lastSnapshot,
                   renderedSincePoll, tickLog, playVars, libVars,
                   uploadVars>>

\* document.querySelector('.auth-modal.active, .settings-modal.active,
\* .change-credentials-modal.active, .confirm-overlay.active') (852)
HasOpenModal ==
    authModalOpen \/ settingsModalOpen \/ changeModalOpen \/ overlayActive

\* a setInterval callback that calls updateMetadata whatever is open
IntervalTick_IgnoresModals ==
    /\ CanCallUpdateMetadata(1)
    /\ UpdateMetadataCalls(1)
    /\ tickLog' = IF tickLog = "suppressed" THEN "resumed" ELSE tickLog
    /\ UNCHANGED <<fastTimers, snapshotVars, now, progressFill, frameRequests, lastSnapshot,
                   renderedSincePoll, playVars, libVars, uploadVars>>

\* the setInterval callback (851-856)
IntervalTick ==
    /\ IF ~HasOpenModal
       THEN /\ CanCallUpdateMetadata(1)
            /\ UpdateMetadataCalls(1)
            /\ tickLog' = IF tickLog = "suppressed" THEN "resumed" ELSE tickLog
       ELSE /\ tickLog' = "suppressed"
            /\ UNCHANGED <<statusInFlight, superseded>>
    /\ UNCHANGED <<fastTimers, snapshotVars, now, progressFill, frameRequests, lastSnapshot,
                   renderedSincePoll, playVars, libVars, uploadVars>>

(***************************************************************************)
(* Clock Reconciler: updateProgress (729-740).  Positions are kept in ms:  *)
(* serverCurrentTime + (Date.now() - lastUpdateTime) / 1000 seconds is     *)
(* serverCurrentTime * 1000 + (now - lastUpdateTime) ms.                   *)
(***************************************************************************)
\* DisplayPosition without the Math.min clamp of line 733
DisplayPosition_NoClamp(t) == serverCurrentTime * 1000 + (t - lastUpdateTime)

DisplayPosition(t) ==
    Min(serverCurrentTime * 1000 + (t - lastUpdateTime),
        currentTrackDuration * 1000)

\* an updateProgress that requests the next frame only after a write
UpdateProgress_StopsWhenIdle ==
    /\ frameRequests > 0
    /\ IF isPlaying /\ currentTrackDuration > 0
       THEN /\ progressFill' = <<DisplayPosition(now), currentTrackDuration * 1000>>
            /\ renderedSincePoll' = TRUE
            /\ frameRequests' = (frameRequests - 1) + 1
       ELSE /\ frameRequests' = frameRequests - 1
            /\ UNCHANGED <<progressFill, renderedSincePoll>>
    /\ UNCHANGED <<statusInFlight, superseded, tickLog, fastTimers,
                   snapshotVars, now, lastSnapshot,
                   playVars, libVars, uploadVars>>

\* the frame callback runs updateProgress, which requests the next one (739)
UpdateProgress ==
    /\ frameRequests > 0
    /\ IF isPlaying /\ currentTrackDuration > 0
       THEN /\ progressFill' = <<DisplayPosition(now), currentTrackDuration * 1000>>
            /\ renderedSincePoll' = TRUE
       ELSE UNCHANGED <<progressFill, renderedSincePoll>>
    /\ frameRequests' = (frameRequests - 1) + 1
    /\ UNCHANGED <<statusInFlight, superseded, tickLog, fastTimers,
                   snapshotVars, now, lastSnapshot,
                   playVars, libVars, uploadVars>>

\* time passes
TimeSteps == {5000}
AdvanceTime ==
    \E dt \in TimeSteps :
        /\ now + dt <= PageStartTime + ObservedMs
        /\ now' = now + dt
        /\ UNCHANGED <<statusInFlight, superseded, tickLog,
                       fastTimers, snapshotVars, progressFill, frameRequests, lastSnapshot,
                       renderedSincePoll, playVars, libVars, uploadVars>>

(***************************************************************************)
(* Authentication and modals.                                              *)
(***************************************************************************)
\* showAuthModal (262-265)
ShowAuthModal == authModalOpen' = TRUE

\* handleLogin (304-309): performLogin, the response.ok branch (33-42),
\* with hideAuthModal as onSuccess
PerformLoginOk ==
    /\ authToken' = TRUE
    /\ currentUser' = TRUE
    /\ authModalOpen' = FALSE
    /\ UNCHANGED <<profileInFlight, changeHideTimers, verifyState>>
    /\ UNCHANGED <<settingsModalOpen, changeModalOpen, dialogVars, allTracks,
                   serverTracks, tracksInFlight, refetchTimers, ops, seenRefs>>
    /\ UNCHANGED <<playVars, pollVars, uploadVars>>

libRest == <<dialogVars, allTracks, serverTracks, tracksInFlight,
             refetchTimers, ops, seenRefs>>

\* logout (379-392): both globals are cleared
Logout ==
    /\ authToken' = FALSE
    /\ currentUser' = FALSE
    /\ UNCHANGED <<profileInFlight, changeHideTimers, verifyState>>
    /\ UNCHANGED <<modalVars, libRest>>
    /\ UNCHANGED <<playVars, pollVars, uploadVars>>

\* showSettings (147-174)
ShowSettings ==
    /\ settingsModalOpen' = TRUE
    /\ UNCHANGED <<authModalOpen, changeModalOpen>>
    /\ UNCHANGED <<authVars, libRest>>
    /\ UNCHANGED <<playVars, pollVars, uploadVars>>

\* showChangeCredentials (243-248) closes the settings modal and opens the
\* credentials form; its button is in the section of the settings modal
\* that is shown to a logged-in user (165-168, 229-232, 386-391)
ShowChangeCredentials ==
    /\ settingsModalOpen
    /\ currentUser /\ authToken
    /\ settingsModalOpen' = FALSE
    /\ changeModalOpen' = TRUE
    /\ UNCHANGED authModalOpen
    /\ UNCHANGED <<authVars, libRest>>
    /\ UNCHANGED <<playVars, pollVars, uploadVars>>

\* handleChangeCredentials up to its request (318-344): the form of the
\* credentials modal is submitted
HandleChangeCredentials ==
    /\ changeModalOpen
    /\ Len(profileInFlight) < MaxProfileRequests
    /\ profileInFlight' = Append(profileInFlight, authToken)
    /\ UNCHANGED <<currentUser, authToken, changeHideTimers, verifyState>>
    /\ UNCHANGED <<modalVars, libRest>>
    /\ UNCHANGED <<playVars, pollVars, uploadVars>>

\* profileInFlight without its i-th request
WithoutRequest(i) ==
    [j \in 1..(Len(profileInFlight) - 1) |->
        IF j < i THEN profileInFlight[j] ELSE profileInFlight[j + 1]]

\* the profile response is handled with response.ok (346-363): the body
\* carries a user or not, and a token or not; the backend accepts only a
\* request that was sent with a token
ProfileResponseOk(i, hasUser, hasToken) ==
    /\ i \in 1..Len(profileInFlight)
    /\ profileInFlight[i]
    /\ changeHideTimers < MaxProfileRequests
    /\ profileInFlight' = WithoutRequest(i)
    /\ currentUser' = (IF hasUser THEN TRUE ELSE currentUser)
    /\ authToken' = (IF hasToken THEN TRUE ELSE authToken)
    /\ changeHideTimers' = changeHideTimers + 1
    /\ UNCHANGED verifyState
    /\ UNCHANGED <<modalVars, libRest>>
    /\ UNCHANGED <<playVars, pollVars, uploadVars>>

\* the profile response is not ok, or the request throws (364-370)
ProfileResponseFail(i) ==
    /\ i \in 1..Len(profileInFlight)
    /\ profileInFlight' = WithoutRequest(i)
    /\ UNCHANGED <<currentUser, authToken, changeHideTimers, verifyState>>
    /\ UNCHANGED <<modalVars, libRest>>
    /\ UNCHANGED <<playVars, pollVars, uploadVars>>

\* the 2000 ms timer of handleChangeCredentials fires (360-362):
\* hideChangeCredentialsModal (250-258)
ChangeHideTimerFires ==
    /\ changeHideTimers > 0
    /\ changeHideTimers' = changeHideTimers - 1
    /\ changeModalOpen' = FALSE
    /\ UNCHANGED <<currentUser, authToken, profileInFlight, verifyState>>
    /\ UNCHANGED <<authModalOpen, settingsModalOpen, libRest>>
    /\ UNCHANGED <<playVars, pollVars, uploadVars>>

\* checkAuthStatus (425-454), called when the script is loaded (1175):
\* with a token and a user in the local storage the token is verified
CheckAuthStatus(stored) ==
    /\ verifyState = "unstarted"
    /\ verifyState' = (IF stored THEN "pending" ELSE "done")
    /\ UNCHANGED <<currentUser, authToken, profileInFlight, changeHideTimers>>
    /\ UNCHANGED <<modalVars, libRest>>
    /\ UNCHANGED <<playVars, pollVars, uploadVars>>

\* the verification answers ok (436-441): the stored pair is installed
VerifyOk ==
    /\ verifyState = "pending"
    /\ verifyState' = "done"
    /\ authToken' = TRUE
    /\ currentUser' = TRUE
    /\ UNCHANGED <<profileInFlight, changeHideTimers>>
    /\ UNCHANGED <<modalVars, libRest>>
    /\ UNCHANGED <<playVars, pollVars, uploadVars>>

\* the verification is refused or throws (443-453): only the local
\* storage is cleared
VerifyFail ==
    /\ verifyState = "pending"
    /\ verifyState' = "done"
    /\ UNCHANGED <<currentUser, authToken, profileInFlight, changeHideTimers>>
    /\ UNCHANGED <<modalVars, libRest>>
    /\ UNCHANGED <<playVars, pollVars, uploadVars>>

(***************************************************************************)
(* The confirm dialog (101-145).  confirmResolve is <<>> for null, <<0>>   *)
(* for the resolver of a promise nobody awaits (a notice), and <<o>> for   *)
(* the resolver of the promise that mutation call o awaits.                *)
(***************************************************************************)
OpIds == 1..MaxOps

\* showConfirmDialog (103-131)
ShowConfirmDialog(kind, owner) ==
    /\ confirmResolve' = <<owner>>
    /\ dialogShown' = kind
    /\ overlayActive' = TRUE
    /\ UNCHANGED closeTimers

(***************************************************************************)
(* The library listing.  A track is [filepath, in_queue, filename]; the    *)
(* backend lists the silence placeholder first and the library files in    *)
(* filepath order.                                                         *)
(***************************************************************************)
\* the library files besides the silence placeholder
Filepaths == {1, 2}
LastPath == CHOOSE fp \in Filepaths : \A g \in Filepaths : g <= fp
SilencePlaceholder == "_silence_placeholder.aac"
Track(fp, q) == [filepath |-> fp, in_queue |-> q, filename |-> "audio"]
SilenceTrack == [filepath |-> 0, in_queue |-> FALSE, filename |-> SilencePlaceholder]

PathsOf(tracks) == {tracks[i].filepath : i \in 1..Len(tracks)}
ServerListing == <<SilenceTrack>> \o serverTracks

\* FilterSilence that keeps every entry of the response
FilterSilence_KeepAll(tracks) == tracks

\* the filter of loadTracksList (867-869)
FilterSilence(tracks) ==
    SelectSeq(tracks, LAMBDA tr : tr.filename = "" \/ tr.filename # SilencePlaceholder)

\* track.in_queue = q on the element whose filepath is fp
SetInQueue(tracks, fp, q) ==
    [i \in 1..Len(tracks) |->
        IF tracks[i].filepath = fp THEN [tracks[i] EXCEPT !.in_queue = q]
        ELSE tracks[i]]

\* allTracks.splice(idx, 1), idx counted from 0
Splice(tracks, idx) ==
    IF idx >= Len(tracks) THEN tracks
    ELSE [i \in 1..(Len(tracks) - 1) |->
             IF i <= idx THEN tracks[i] ELSE tracks[i + 1]]

\* the listing without the entry whose filepath is fp
WithoutPath(tracks, fp) == SelectSeq(tracks, LAMBDA tr : tr.filepath # fp)

\* renderTracksList (883-924): button i carries index i of the listing
RenderedRefs(tracks) == {<<i - 1, tracks[i].filepath>> : i \in 1..Len(tracks)}
RenderTracksList(tracks) == seenRefs' = seenRefs \cup RenderedRefs(tracks)

IdleOp == [kind |-> "none", idx |-> 0, fp |-> 0, attached |-> FALSE, pc |-> "idle"]
FreeOps == {o \in OpIds : ops[o].pc = "idle"}
NewOp == CHOOSE o \in FreeOps : \A r \in FreeOps : o <= r

\* loadTracksList() is called n times
LoadTracksListCalls(n) == tracksInFlight' = tracksInFlight + n
CanCallLoadTracksList(n) == tracksInFlight + n <= MaxTracksFetches

\* loadTracksList, the fetch resolved: 865-872.  Every element of the new
\* array is a new object, so no call in progress holds one of them.
LoadTracksListOk ==
    /\ tracksInFlight > 0
    /\ tracksInFlight' = tracksInFlight - 1
    /\ allTracks' = FilterSilence(ServerListing)
    /\ RenderTracksList(allTracks')
    /\ ops' = [o \in OpIds |-> [ops[o] EXCEPT !.attached = FALSE]]
    /\ UNCHANGED <<authVars, modalVars, dialogVars, serverTracks, refetchTimers>>
    /\ UNCHANGED <<playVars, pollVars, uploadVars>>

\* loadTracksList, the catch (873-880)
LoadTracksListFail ==
    /\ tracksInFlight > 0
    /\ tracksInFlight' = tracksInFlight - 1
    /\ UNCHANGED <<authVars, modalVars, dialogVars, allTracks, serverTracks,
                   refetchTimers, ops, seenRefs>>
    /\ UNCHANGED <<playVars, pollVars, uploadVars>>

\* setTimeout(() => loadTracksList(), 5000) fires (960, 1024, 1105)
RefetchTimerFires ==
    /\ refetchTimers # <<>>
    /\ CanCallLoadTracksList(1)
    /\ refetchTimers' = Tail(refetchTimers)
    /\ LoadTracksListCalls(1)
    /\ UNCHANGED <<authVars, modalVars, dialogVars, allTracks, serverTracks,
                   ops, seenRefs>>
    /\ UNCHANGED <<playVars, pollVars, uploadVars>>

\* showTracksModal (191-196)
ShowTracksModal ==
    /\ CanCallLoadTracksList(1)
    /\ LoadTracksListCalls(1)
    /\ UNCHANGED <<authVars, modalVars, dialogVars, allTracks, serverTracks,
                   refetchTimers, ops, seenRefs>>
    /\ UNCHANGED <<playVars, pollVars, uploadVars>>

(***************************************************************************)
(* Mutation Coordinator.  The three functions are global and take an       *)
(* index; ref = <<index, filepath>> is a position of the current or of an  *)
(* earlier listing with the filepath that listing held there, and only the *)
(* index reaches the function.  The confirm overlay covers the buttons     *)
(* while it is open.                                                       *)
(***************************************************************************)
\* what a call keeps of const track = allTracks[trackIndex]: the filepath
\* of the object, whether the object is still an element of allTracks (only
\* addTrackToQueue and removeFromQueue write to it), and trackIndex (only
\* removeTrack uses it again)
StartOp(kind, trackIndex, pc) ==
    ops' = [ops EXCEPT ![NewOp] =
               [kind |-> kind,
                idx |-> IF kind = "delete" THEN trackIndex ELSE 0,
                fp |-> allTracks[trackIndex + 1].filepath,
                attached |-> kind # "delete", pc |-> pc]]

\* addTrackToQueue up to the fetch (926-948)
AddTrackToQueue(ref) ==
    LET trackIndex == ref[1] IN
    /\ ~overlayActive
    /\ IF ~currentUser
       THEN /\ ShowAuthModal
            /\ UNCHANGED <<settingsModalOpen, changeModalOpen, dialogVars, ops>>
       ELSE IF trackIndex < 0 \/ trackIndex >= Len(allTracks)
       THEN /\ ShowConfirmDialog("invalid_track", 0)
            /\ UNCHANGED <<modalVars, ops>>
       ELSE /\ FreeOps # {}
            /\ StartOp("add", trackIndex, "request")
            /\ UNCHANGED <<modalVars, dialogVars>>
    /\ UNCHANGED <<authVars, allTracks, serverTracks, tracksInFlight,
                   refetchTimers, seenRefs>>
    /\ UNCHANGED <<playVars, pollVars, uploadVars>>

\* RemoveTrack without the currentUser test of 978-981
RemoveTrack_NoAuthCheck(ref) ==
    LET trackIndex == ref[1] IN
    /\ ~overlayActive
    /\ IF trackIndex < 0 \/ trackIndex >= Len(allTracks)
       THEN /\ ShowConfirmDialog("invalid_track", 0)
            /\ UNCHANGED <<modalVars, ops>>
       ELSE /\ FreeOps # {}
            /\ StartOp("delete", trackIndex, "confirm")
            /\ ShowConfirmDialog("confirm_delete", NewOp)
            /\ UNCHANGED modalVars
    /\ UNCHANGED <<authVars, allTracks, serverTracks, tracksInFlight,
                   refetchTimers, seenRefs>>
    /\ UNCHANGED <<playVars, pollVars, uploadVars>>

\* removeTrack up to the confirmation prompt (977-997)
RemoveTrack(ref) ==
    LET trackIndex == ref[1] IN
    /\ ~overlayActive
    /\ IF ~currentUser
       THEN /\ ShowAuthModal
            /\ UNCHANGED <<settingsModalOpen, changeModalOpen, dialogVars, ops>>
       ELSE IF trackIndex < 0 \/ trackIndex >= Len(allTracks)
       THEN /\ ShowConfirmDialog("invalid_track", 0)
            /\ UNCHANGED <<modalVars, ops>>
       ELSE /\ FreeOps # {}
            /\ StartOp("delete", trackIndex, "confirm")
            /\ ShowConfirmDialog("confirm_delete", NewOp)
            /\ UNCHANGED modalVars
    /\ UNCHANGED <<authVars, allTracks, serverTracks, tracksInFlight,
                   refetchTimers, seenRefs>>
    /\ UNCHANGED <<playVars, pollVars, uploadVars>>

\* removeFromQueue up to the confirmation prompt (1057-1078)
RemoveFromQueue(ref) ==
    LET trackIndex == ref[1] IN
    /\ ~overlayActive
    /\ IF ~currentUser
       THEN /\ ShowAuthModal
            /\ UNCHANGED <<settingsModalOpen, changeModalOpen, dialogVars, ops>>
       ELSE IF trackIndex < 0 \/ trackIndex >= Len(allTracks)
       THEN /\ ShowConfirmDialog("invalid_track", 0)
            /\ UNCHANGED <<modalVars, ops>>
       ELSE /\ FreeOps # {}
            /\ StartOp("unqueue", trackIndex, "confirm")
            /\ ShowConfirmDialog("confirm_unqueue", NewOp)
            /\ UNCHANGED modalVars
    /\ UNCHANGED <<authVars, allTracks, serverTracks, tracksInFlight,
                   refetchTimers, seenRefs>>
    /\ UNCHANGED <<playVars, pollVars, uploadVars>>

\* closeConfirmDialog(result) (133-145): the Confirm or Cancel button, or
\* the Escape key (1159-1163)
CloseConfirmDialog(result) ==
    /\ overlayActive
    /\ Len(closeTimers) < MaxCloseTimers
    \* the timer's closure holds result; on is history: the dialog the
    \* button belonged to
    /\ closeTimers' = Append(closeTimers,
                             [result |-> result, on |-> confirmResolve])
    /\ UNCHANGED <<authVars, modalVars, overlayActive, dialogShown,
                   confirmResolve, allTracks, serverTracks, tracksInFlight,
                   refetchTimers, ops, seenRefs>>
    /\ UNCHANGED <<playVars, pollVars, uploadVars>>

\* the 300 ms timer of closeConfirmDialog fires (137-143); the awaiting
\* function resumes: 999-1012 of removeTrack, 1080-1093 of removeFromQueue
CloseTimerFires ==
    /\ closeTimers # <<>>
    /\ closeTimers' = Tail(closeTimers)
    /\ overlayActive' = FALSE
    /\ dialogShown' = "none"
    /\ IF confirmResolve # <<>>
       THEN LET o == confirmResolve[1] IN
            /\ confirmResolve' = <<>>
            /\ IF o \in OpIds
               THEN ops' = [ops EXCEPT ![o] =
                               IF Head(closeTimers).result
                               THEN [@ EXCEPT !.pc = "request"]
                               ELSE IdleOp]
               ELSE UNCHANGED ops
       ELSE UNCHANGED <<confirmResolve, ops>>
    /\ UNCHANGED <<authVars, modalVars, allTracks, serverTracks,
                   tracksInFlight, refetchTimers, seenRefs>>
    /\ UNCHANGED <<playVars, pollVars, uploadVars>>

(***************************************************************************)
(* The backend, at its interface (spec section 6): a mutation succeeds     *)
(* only for a file the library holds, and may fail for any request.        *)
(***************************************************************************)
ServerApply(kind, fp) ==
    CASE kind = "add" -> SetInQueue(serverTracks, fp, TRUE)
      [] kind = "unqueue" -> SetInQueue(serverTracks, fp, FALSE)
      [] kind = "delete" -> WithoutPath(serverTracks, fp)

\* the settle delay of the listing refetch (960, 1024, 1105)
SettleDelayMs == 5000

\* the optimistic local edit: 954, 1099, 1018
LocalEdit(op) ==
    CASE op.kind = "add" ->
            IF op.attached THEN SetInQueue(allTracks, op.fp, TRUE) ELSE allTracks
      [] op.kind = "unqueue" ->
            IF op.attached THEN SetInQueue(allTracks, op.fp, FALSE) ELSE allTracks
      [] op.kind = "delete" -> Splice(allTracks, op.idx)

SuccessNotice(kind) ==
    CASE kind = "add" -> "added"
      [] kind = "unqueue" -> "unqueued"
      [] kind = "delete" -> "deleted"

FailureNotice(kind, outcome) ==
    IF kind = "delete"
    THEN (IF outcome = "error" THEN "delete_failed" ELSE "delete_unreachable")
    ELSE "queue_error"

\* the paths of the objects that left allTracks
Removed(before, after) == PathsOf(before) \ PathsOf(after)

\* the response of the mutation request of call o is handled:
\* 950-974, 1014-1054, 1095-1118
MutationSuccess(o) ==
    LET op == ops[o] IN
    /\ op.pc = "request"
    /\ op.fp \in PathsOf(serverTracks)
    /\ Len(refetchTimers) < MaxRefetchTimers
    /\ CanCallUpdateMetadata(1)
    /\ serverTracks' = ServerApply(op.kind, op.fp)
    /\ allTracks' = LocalEdit(op)
    /\ RenderTracksList(allTracks')
    /\ refetchTimers' = Append(refetchTimers, SettleDelayMs)
    /\ UpdateMetadataCalls(1)
    /\ ShowConfirmDialog(SuccessNotice(op.kind), 0)
    /\ ops' = [p \in OpIds |->
                 IF p = o THEN IdleOp
                 ELSE IF ops[p].attached /\ ops[p].fp \in Removed(allTracks, allTracks')
                 THEN [ops[p] EXCEPT !.attached = FALSE]
                 ELSE ops[p]]
    /\ UNCHANGED <<authVars, modalVars, tracksInFlight>>
    /\ UNCHANGED <<playVars, uploadVars, fastTimers, snapshotVars, now, progressFill, frameRequests,
                   lastSnapshot, renderedSincePoll, tickLog>>

MutationFailure_AppliesEdit(o, outcome) ==
    LET op == ops[o] IN
    /\ op.pc = "request"
    /\ ShowConfirmDialog(FailureNotice(op.kind, outcome), 0)
    /\ ops' = [ops EXCEPT ![o] = IdleOp]
    /\ allTracks' = LocalEdit(op)
    /\ UNCHANGED <<authVars, modalVars, serverTracks,
                   tracksInFlight, refetchTimers, seenRefs>>
    /\ UNCHANGED <<playVars, pollVars, uploadVars>>

\* the backend answers without success ("error") or the request throws
\* ("throw"): 970-974, 1036-1054, 1114-1118
MutationFailure(o, outcome) ==
    LET op == ops[o] IN
    /\ op.pc = "request"
    /\ ShowConfirmDialog(FailureNotice(op.kind, outcome), 0)
    /\ ops' = [ops EXCEPT ![o] = IdleOp]
    /\ UNCHANGED <<authVars, modalVars, allTracks, serverTracks,
                   tracksInFlight, refetchTimers, seenRefs>>
    /\ UNCHANGED <<playVars, pollVars, uploadVars>>

(***************************************************************************)
(* Volume and upload (662-664, 745-816).  The upload button is disabled    *)
(* while no file is selected and while a request is awaited; the backend   *)
(* storing the file is a ServerLibraryChange.                              *)
(***************************************************************************)
Volumes == {0}

\* a setVolume that stops playback when the slider reaches 0
SetVolume_StopsAtZero(value) ==
    /\ volume' = value
    /\ isPlaying' = (isPlaying /\ value # 0)
    /\ UNCHANGED <<selectedFile, uploading>>
    /\ UNCHANGED <<pageLoaded, platform, sessVars, rebuildTimers, playTimers,
                   nativeVars, sinkVars, status, playBtnAnimation,
                   userStopped, stallSeen,
                   mediaRecoverSeen, lastMediaEvent>>
    /\ UNCHANGED <<pollVars, libVars>>

\* setVolume (662-664): audio.volume = value / 100
SetVolume(value) ==
    /\ volume' = value
    /\ UNCHANGED <<selectedFile, uploading>>
    /\ UNCHANGED <<playVars, pollVars, libVars>>

\* handleFileSelect (748-760)
HandleFileSelect(chosen) ==
    /\ ~uploading
    /\ selectedFile' = chosen
    /\ UNCHANGED <<volume, uploading>>
    /\ UNCHANGED <<playVars, pollVars, libVars>>

\* uploadFile up to its request (762-782)
UploadFile ==
    /\ selectedFile
    /\ ~uploading
    /\ IF ~currentUser
       THEN ShowAuthModal /\ UNCHANGED uploading
       ELSE uploading' = TRUE /\ UNCHANGED authModalOpen
    /\ UNCHANGED <<volume, selectedFile>>
    /\ UNCHANGED <<authVars, settingsModalOpen, changeModalOpen, dialogVars,
                   allTracks, serverTracks, tracksInFlight, refetchTimers,
                   ops, seenRefs>>
    /\ UNCHANGED <<playVars, pollVars>>

\* the upload response says success (786-802)
UploadSuccess ==
    /\ uploading
    /\ CanCallUpdateMetadata(1)
    /\ CanCallLoadTracksList(1)
    /\ uploading' = FALSE
    /\ selectedFile' = FALSE
    /\ UpdateMetadataCalls(1)
    /\ LoadTracksListCalls(1)
    /\ UNCHANGED volume
    /\ UNCHANGED <<authVars, modalVars, dialogVars, allTracks, serverTracks,
                   refetchTimers, ops, seenRefs>>
    /\ UNCHANGED <<playVars, fastTimers, snapshotVars, now, progressFill, frameRequests,
                   lastSnapshot, renderedSincePoll, tickLog>>

\* the upload response says failure or the request throws (803-815)
UploadFailure ==
    /\ uploading
    /\ uploading' = FALSE
    /\ ShowConfirmDialog("upload_error", 0)
    /\ UNCHANGED <<volume, selectedFile>>
    /\ UNCHANGED <<authVars, modalVars, allTracks, serverTracks,
                   tracksInFlight, refetchTimers, ops, seenRefs>>
    /\ UNCHANGED <<playVars, pollVars>>

\* the library as a listing in filepath order
ListingOf(paths, queued) ==
    LET F[i \in 0..LastPath] ==
            IF i = 0 THEN <<>>
            ELSE IF i \in paths THEN Append(F[i - 1], Track(i, i \in queued))
            ELSE F[i - 1]
    IN F[LastPath]

QueuedOf(tracks) == {tracks[i].filepath : i \in {j \in 1..Len(tracks) : tracks[j].in_queue}}

\* the backend plays a queued track: it leaves the queue
ServerQueueAdvance ==
    /\ \E fp \in QueuedOf(serverTracks) :
           serverTracks' = SetInQueue(serverTracks, fp, FALSE)
    /\ UNCHANGED <<authVars, modalVars, dialogVars, allTracks, tracksInFlight,
                   refetchTimers, ops, seenRefs>>
    /\ UNCHANGED <<playVars, pollVars, uploadVars>>

\* another client uploads or deletes a file
ServerLibraryChange ==
    /\ \E fp \in Filepaths :
           serverTracks' =
               IF fp \in PathsOf(serverTracks) THEN WithoutPath(serverTracks, fp)
               ELSE ListingOf(PathsOf(serverTracks) \cup {fp}, QueuedOf(serverTracks))
    /\ UNCHANGED <<authVars, modalVars, dialogVars, allTracks, tracksInFlight,
                   refetchTimers, ops, seenRefs>>
    /\ UNCHANGED <<playVars, pollVars, uploadVars>>

(***************************************************************************)
(* Page load.                                                              *)
(***************************************************************************)
\* the DOMContentLoaded listener (840-845)
DOMContentLoaded ==
    /\ ~pageLoaded
    /\ CanInitHLS
    /\ CanCallLoadTracksList(1)
    /\ pageLoaded' = TRUE
    /\ InitHLS(sess, manifestPending)
    /\ InitHLSSink
    /\ LoadTracksListCalls(1)
    /\ UNCHANGED <<platform, isPlaying, rebuildTimers, playTimers, status,
                   playBtnAnimation,
                   userStopped, stallSeen,
                   mediaRecoverSeen, lastMediaEvent>>
    /\ UNCHANGED <<authVars, modalVars, dialogVars, allTracks, serverTracks,
                   refetchTimers, ops, seenRefs>>
    /\ UNCHANGED <<pollVars, uploadVars>>

\* the state once the script has run: 6-9, 101, 471, 667-669, 743, 848,
\* 851, 859, 1175
Init ==
    /\ pageLoaded = FALSE
    /\ platform \in Platforms
    /\ isPlaying = FALSE
    /\ hls = 0
    /\ sess = [s \in SessionIds |-> "none"]
    /\ manifestPending = {}
    /\ manifestRetry = [s \in SessionIds |-> 0]
    /\ rebuildTimers = [s \in SessionIds |-> 0]
    /\ playTimers = 0
    /\ audioSrcSet = FALSE
    /\ nativeListeners = 0
    /\ metadataPending = FALSE
    /\ paused = TRUE
    /\ playPending = <<>>
    /\ playAborted = <<>>
    /\ status = "initial"
    /\ playBtnAnimation = "none"
    /\ userStopped = FALSE
    /\ stallSeen = FALSE
    /\ mediaRecoverSeen = FALSE
    /\ lastMediaEvent = "none"
    /\ statusInFlight = 1
    /\ superseded = 0
    /\ tickLog = "none"
    /\ fastTimers = 0
    /\ trackTitle = "Loading..."
    /\ currentTrackDuration = 0
    /\ serverCurrentTime = 0
    /\ lastUpdateTime = 0
    /\ nextTrackShown = "initial"
    /\ queueShown = "initial"
    /\ now = PageStartTime
    /\ frameRequests = 1
    /\ progressFill = <<0, 0>>
    /\ lastSnapshot = NoSnapshot
    /\ renderedSincePoll = FALSE
    /\ currentUser = FALSE
    /\ authToken = FALSE
    /\ profileInFlight = <<>>
    /\ changeHideTimers = 0
    /\ verifyState = "unstarted"
    /\ authModalOpen = FALSE
    /\ settingsModalOpen = FALSE
    /\ changeModalOpen = FALSE
    /\ overlayActive = FALSE
    /\ dialogShown = "none"
    /\ confirmResolve = <<>>
    /\ closeTimers = <<>>
    /\ allTracks = <<>>
    /\ serverTracks = ListingOf(Filepaths, {})
    /\ tracksInFlight = 0
    /\ refetchTimers = <<>>
    /\ ops = [o \in OpIds |-> IdleOp]
    /\ seenRefs = {}
    /\ volume = 70
    /\ selectedFile = FALSE
    /\ uploading = FALSE

(***************************************************************************)
(* Playback specification: the page load, the user's play/pause requests,  *)
(* the events of the live session and of the sink, and the handling of     *)
(* the fetches those handlers start.                                       *)
(***************************************************************************)
PlayStatusBodies == {StatusBody(TRUE, "A", 200, TRUE, 50, "none", "none")}

PlayEvents ==
    \/ TogglePlay
    \/ PlayTimerFires
    \/ \E s \in SessionIds : ManifestParsed(s)
    \/ LoadedMetadata
    \/ PlayResolved
    \/ PlayRejected
    \/ HlsErrorEvent
    \/ \E s \in SessionIds : RebuildTimerFires(s)
    \/ \E data \in PlayStatusBodies : UpdateMetadataOk(data)
    \/ UpdateMetadataFail
    \/ FastTimerFires
    \/ LoadTracksListOk
    \/ LoadTracksListFail

NextPlay == DOMContentLoaded \/ PlayEvents

SpecPlay == Init /\ [][NextPlay]_vars

\* the same, with no user or network event before DOMContentLoaded
NextPlayLoaded ==
    \/ DOMContentLoaded
    \/ pageLoaded /\ TogglePlay
    \/ pageLoaded /\ PlayTimerFires
    \/ pageLoaded /\ \E s \in SessionIds : ManifestParsed(s)
    \/ pageLoaded /\ LoadedMetadata
    \/ pageLoaded /\ \E s \in SessionIds : FragLoaded(s)
    \/ pageLoaded /\ PlayResolved
    \/ pageLoaded /\ PlayRejected
    \/ pageLoaded /\ HlsErrorEvent
    \/ pageLoaded /\ \E s \in SessionIds : RebuildTimerFires(s)
    \/ pageLoaded /\ \E data \in PlayStatusBodies : UpdateMetadataOk(data)
    \/ pageLoaded /\ UpdateMetadataFail
    \/ pageLoaded /\ FastTimerFires
    \/ pageLoaded /\ LoadTracksListOk
    \/ pageLoaded /\ LoadTracksListFail

SpecPlayLoaded == Init /\ [][NextPlayLoaded]_vars

(***************************************************************************)
(* Retry specification: the loaded page in the browsers that take the Hls  *)
(* branch, with manifest loads that fail, play/pause requests, the         *)
(* unclassified fatal error and its rebuild.                               *)
(***************************************************************************)
InitRetry == Init /\ platform = "hlsjs"

NextRetry ==
    \/ DOMContentLoaded
    \/ pageLoaded /\ TogglePlay
    \/ pageLoaded /\ \E s \in SessionIds : ManifestLoadFails(s)
    \/ pageLoaded /\ \E s \in SessionIds : ManifestParsed(s)
    \/ pageLoaded /\ PlayResolved
    \/ pageLoaded /\ PlayRejected
    \/ pageLoaded /\ \E s \in SessionIds : HlsError(s, "other")
    \/ pageLoaded /\ \E s \in SessionIds : RebuildTimerFires(s)
    \/ pageLoaded /\ UpdateMetadataFail

SpecRetry == InitRetry /\ [][NextRetry]_vars

(***************************************************************************)
(* Recovery specification: the loaded page in the browsers that take the   *)
(* Hls branch, with every class of session error, failing polls and a      *)
(* failing mutation.  The network and the sink cooperate: a manifest that  *)
(* is loading gets parsed, a pending play promise is settled, a timer that *)
(* is set fires and a fetch in flight is answered.  An unclassified fatal  *)
(* error is raised only while a session can still be created.              *)
(***************************************************************************)
InitRecover == Init /\ platform = "hlsjs"

ManifestParsedEvent == \E s \in SessionIds : ManifestParsed(s)
RebuildTimerEvent == \E s \in SessionIds : RebuildTimerFires(s)
StatusResponse ==
    UpdateMetadataFail \/ \E data \in PlayStatusBodies : UpdateMetadataOk(data)

NextRecover ==
    \/ DOMContentLoaded
    \/ pageLoaded /\ TogglePlay
    \/ pageLoaded /\ ManifestParsedEvent
    \/ pageLoaded /\ PlayResolved
    \/ pageLoaded /\ PlayRejected
    \/ pageLoaded /\ \E s \in SessionIds, kind \in ErrorKinds \ {"other"} :
                        HlsError(s, kind)
    \/ pageLoaded /\ Created < MaxSessions
                  /\ \E s \in SessionIds : HlsError(s, "other")
    \/ pageLoaded /\ RebuildTimerEvent
    \/ pageLoaded /\ StatusResponse
    \/ pageLoaded /\ FastTimerFires
    \/ pageLoaded /\ LoadTracksListOk
    \/ pageLoaded /\ PerformLoginOk
    \/ pageLoaded /\ \E ref \in seenRefs : AddTrackToQueue(ref)
    \/ pageLoaded /\ \E o \in OpIds, outcome \in {"error", "throw"} :
                        MutationFailure(o, outcome)

SpecRecover ==
    /\ InitRecover
    /\ [][NextRecover]_vars
    /\ WF_vars(DOMContentLoaded)
    /\ WF_vars(pageLoaded /\ ManifestParsedEvent)
    /\ WF_vars(pageLoaded /\ PlayResolved)
    /\ WF_vars(pageLoaded /\ PlayRejected)
    /\ WF_vars(pageLoaded /\ RebuildTimerEvent)
    /\ WF_vars(pageLoaded /\ StatusResponse)

(***************************************************************************)
(* Poll specification: the loaded page in the browsers that take the Hls   *)
(* branch, with the three sources of status polls (the 5-second interval,  *)
(* the 3-second timer, and the calls made when playback begins and when an *)
(* upload succeeds), polls that succeed or fail, play and stop requests,   *)
(* and the auth modal opened by an upload before login.  A fetch in flight *)
(* is answered, and a 3-second timer that is set fires.                    *)
(***************************************************************************)
InitPoll == Init /\ platform = "hlsjs"

NextPoll ==
    \/ DOMContentLoaded
    \/ pageLoaded /\ TogglePlay
    \/ pageLoaded /\ ManifestParsedEvent
    \/ pageLoaded /\ PlayResolved
    \/ pageLoaded /\ StatusResponse
    \/ pageLoaded /\ FastTimerFires
    \/ pageLoaded /\ IntervalTick
    \/ pageLoaded /\ HandleFileSelect(TRUE)
    \/ pageLoaded /\ UploadFile
    \/ pageLoaded /\ PerformLoginOk
    \/ pageLoaded /\ UploadSuccess
    \/ pageLoaded /\ UploadFailure
    \/ pageLoaded /\ closeTimers = <<>> /\ CloseConfirmDialog(TRUE)
    \/ pageLoaded /\ CloseTimerFires
    \/ pageLoaded /\ LoadTracksListOk

SpecPoll ==
    /\ InitPoll
    /\ [][NextPoll]_vars
    /\ WF_vars(pageLoaded /\ StatusResponse)
    /\ SF_vars(pageLoaded /\ FastTimerFires)

(***************************************************************************)
(* Frame specification: the loaded page in the browsers that take the Hls  *)
(* branch, with playback started by the page and stopped by the user while *)
(* the volume is set, files are uploaded and the library and the queue are *)
(* changed.  The user clicks once on each dialog.                          *)
(***************************************************************************)
InitFrame == Init /\ platform = "hlsjs"

MutationCall ==
    \E ref \in seenRefs :
        AddTrackToQueue(ref) \/ RemoveFromQueue(ref) \/ RemoveTrack(ref)

MutationResponse ==
    \E o \in OpIds :
        \/ MutationSuccess(o)
        \/ \E outcome \in {"error", "throw"} : MutationFailure(o, outcome)

NextFrame ==
    \/ DOMContentLoaded
    \/ pageLoaded /\ isPlaying /\ TogglePlay      \* the user's stop request
    \/ pageLoaded /\ ManifestParsedEvent
    \/ pageLoaded /\ PlayResolved
    \/ pageLoaded /\ UpdateMetadataFail
    \/ pageLoaded /\ LoadTracksListOk
    \/ pageLoaded /\ PerformLoginOk
    \/ pageLoaded /\ MutationCall
    \/ pageLoaded /\ closeTimers = <<>>      \* one click on each dialog
                  /\ \E result \in BOOLEAN : CloseConfirmDialog(result)
    \/ pageLoaded /\ CloseTimerFires
    \/ pageLoaded /\ MutationResponse
    \/ pageLoaded /\ \E value \in Volumes : SetVolume(value)
    \/ pageLoaded /\ HandleFileSelect(TRUE)
    \/ pageLoaded /\ UploadFile
    \/ pageLoaded /\ UploadSuccess
    \/ pageLoaded /\ UploadFailure

SpecFrame == InitFrame /\ [][NextFrame]_vars

(***************************************************************************)
(* Library specification: the listing fetches, the three mutations with    *)
(* their prompts, the backend and the other clients that change the        *)
(* library, in the browsers that take the Hls branch.                      *)
(***************************************************************************)
InitLib == Init /\ platform = "hlsjs"

NextLib ==
    \/ DOMContentLoaded
    \/ pageLoaded /\ LoadTracksListOk
    \/ pageLoaded /\ LoadTracksListFail
    \/ pageLoaded /\ RefetchTimerFires
    \/ pageLoaded /\ ShowTracksModal
    \/ pageLoaded /\ PerformLoginOk
    \/ pageLoaded /\ \E ref \in seenRefs : AddTrackToQueue(ref)
    \/ pageLoaded /\ \E ref \in seenRefs : RemoveTrack(ref)
    \/ pageLoaded /\ \E ref \in seenRefs : RemoveFromQueue(ref)
    \/ pageLoaded /\ \E result \in BOOLEAN : CloseConfirmDialog(result)
    \/ pageLoaded /\ CloseTimerFires
    \/ pageLoaded /\ \E o \in OpIds : MutationSuccess(o)
    \/ pageLoaded /\ \E o \in OpIds, outcome \in {"error", "throw"} :
                        MutationFailure(o, outcome)
    \/ pageLoaded /\ ServerQueueAdvance
    \/ pageLoaded /\ ServerLibraryChange
    \/ pageLoaded /\ UpdateMetadataFail

SpecLib == InitLib /\ [][NextLib]_vars

(***************************************************************************)
(* Clock specification: the status polls with every shape of body, the     *)
(* render tick and the passing of time, with the playback events that      *)
(* make intent Live, in the browsers that take the Hls branch.             *)
(***************************************************************************)
ClockStatusBodies ==
    {StatusBody(TRUE, ti, du, ht, 50, nq[1], nq[2]) :
        ti \in {"A", ""}, du \in {0, 55, 200}, ht \in BOOLEAN,
        nq \in {<<"none", "none">>, <<"N", "Q">>}}
    \cup {StatusBody(FALSE, "", 0, FALSE, 0, "N", "Q")}

\* the bodies that follow the contract of GET /status: metadata and
\* current_time are present
SnapshotBodies == {data \in ClockStatusBodies : data.metadata /\ data.hasTime}

InitClock == Init /\ platform = "hlsjs"

NextClock ==
    \/ DOMContentLoaded
    \/ pageLoaded /\ TogglePlay
    \/ pageLoaded /\ \E s \in SessionIds : ManifestParsed(s)
    \/ pageLoaded /\ PlayResolved
    \/ pageLoaded /\ \E data \in ClockStatusBodies : UpdateMetadataOk(data)
    \/ pageLoaded /\ UpdateMetadataFail
    \/ pageLoaded /\ UpdateMetadataErrorResponse
    \/ pageLoaded /\ FastTimerFires
    \/ pageLoaded /\ IntervalTick
    \/ pageLoaded /\ UpdateProgress
    \/ pageLoaded /\ AdvanceTime

SpecClock == InitClock /\ [][NextClock]_vars

\* the polls of the clock specification alone, while playback is stopped
NextSnapshot ==
    \/ DOMContentLoaded
    \/ pageLoaded /\ \E data \in ClockStatusBodies : UpdateMetadataOk(data)
    \/ pageLoaded /\ UpdateMetadataFail
    \/ pageLoaded /\ IntervalTick
    \/ pageLoaded /\ AdvanceTime

SpecSnapshot == InitClock /\ [][NextSnapshot]_vars

(***************************************************************************)
(* Properties of the playback state machine.                               *)
(***************************************************************************)

\* C1: in every reachable state the number of live sessions created minus
\* the number destroyed is 0 or 1.
C1_AtMostOneLiveSession == Created - Destroyed \in {0, 1}

\* C2: once the user has stopped playback, intent stays Stopped and the
\* sink stays paused until the user requests play again.
C2_NoResurrectionAfterStop == userStopped => (~isPlaying /\ paused)

\* C3: while intent is Stopped no session is acquired automatically: a
\* rebuild timer that fires then creates nothing, and a step that creates a
\* session is the page load or a user play request.
C3_NoReacquireWhileStopped ==
    [][(~isPlaying /\ Created' > Created) => (TogglePlay \/ DOMContentLoaded)]_vars

\* a rebuild timer set by an unclassified fatal error has fired while intent
\* was Stopped: the error status is still shown, the timer is gone and the
\* session that raised the error is still the only one
C3_Witness ==
    /\ status = "connection_error"
    /\ TotalRebuildTimers = 0
    /\ ~isPlaying
    /\ Created = 1
    /\ hls # 0 /\ sess[hls] = "failed"

(***************************************************************************)
(* Properties of the mutation coordinator.                                 *)
(***************************************************************************)

\* C4: when a deleteTrack succeeds, the local listing loses exactly the
\* entry whose filepath was sent in the request.
C4_DeleteRemovesSentPath ==
    [][\A o \in OpIds :
          (ops[o].kind = "delete" /\ MutationSuccess(o))
              => allTracks' = WithoutPath(allTracks, ops[o].fp)]_vars

\* C5: a deleteTrack invoked by an authenticated user for a button whose
\* filepath is no longer in the local listing shows the invalid-track
\* dialog, starts no call towards the backend and leaves the listing alone.
C5_StaleDeleteIsInvalid ==
    [][\A ref \in seenRefs :
          (RemoveTrack(ref) /\ currentUser /\ ref[2] \notin PathsOf(allTracks))
              => /\ dialogShown' = "invalid_track"
                 /\ UNCHANGED <<ops, allTracks>>]_vars

\* C9: when an addToQueue succeeds, the entry of the current local listing
\* with the filepath that was sent has in_queue set once the response is
\* handled.
C9_AddSuccessFlagsListing ==
    [][\A o \in OpIds :
          (ops[o].kind = "add" /\ MutationSuccess(o)
              /\ ops[o].fp \in PathsOf(allTracks))
              => \E i \in 1..Len(allTracks') :
                     /\ allTracks'[i].filepath = ops[o].fp
                     /\ allTracks'[i].in_queue]_vars

\* C10: every successful mutation schedules exactly one listing refetch with
\* the 5000 ms settle delay and fetches nothing at once; the timer starts
\* one listing fetch; and a listing fetch that succeeds replaces the local
\* listing by the backend's library, without the silence placeholder.
C10_RefetchReconciles ==
    [][/\ \A o \in OpIds :
            MutationSuccess(o)
                => /\ refetchTimers' = Append(refetchTimers, 5000)
                   /\ tracksInFlight' = tracksInFlight
       /\ RefetchTimerFires => tracksInFlight' = tracksInFlight + 1
       /\ LoadTracksListOk => allTracks' = serverTracks]_vars

\* a mutation has just succeeded: its notice is shown and its refetch timer
\* is pending
C10_Witness ==
    /\ dialogShown \in {"added", "unqueued", "deleted"}
    /\ refetchTimers # <<>>
    /\ allTracks # <<>>

(***************************************************************************)
(* Properties of the status poller and the clock.                          *)
(***************************************************************************)

\* C6: a failed status poll (the fetch rejects, the body does not parse, or
\* the backend answers with an error) leaves what an earlier poll stored and
\* displayed unchanged, and changes neither intent nor the session status.
C6_FailedPollKeepsSnapshot ==
    [][((UpdateMetadataFail \/ UpdateMetadataErrorResponse)
            /\ queueShown # "initial")
          => UNCHANGED <<snapshotVars, isPlaying, status>>]_vars

\* C7: the position the render tick displays never exceeds the duration
\* baseline, and between two renderings with no baseline write in between
\* it does not decrease.
C7_PositionClampedAndMonotonic ==
    /\ [](/\ progressFill[1] <= progressFill[2]
          /\ currentTrackDuration > 0
               => DisplayPosition(now) <= currentTrackDuration * 1000)
    /\ [][(renderedSincePoll /\ renderedSincePoll')
             => progressFill'[1] >= progressFill[1]]_vars

\* the render tick has displayed a position that time had carried to the
\* duration baseline
C7_Witness ==
    /\ renderedSincePoll
    /\ progressFill[2] > 0
    /\ progressFill[1] = progressFill[2]
    /\ serverCurrentTime * 1000 < progressFill[2]

\* C8: while intent is Live, the render tick displays
\* min(e + (t - t0), d) for the last snapshot (e, d > 0, t0) a poll applied.
C8_DisplayMatchesSnapshot ==
    [][(UpdateProgress /\ isPlaying /\ lastSnapshot # NoSnapshot
            /\ lastSnapshot.d > 0)
          => progressFill'[1] =
                Min(lastSnapshot.e * 1000 + (now - lastSnapshot.t0),
                    lastSnapshot.d * 1000)]_vars

(***************************************************************************)
(* Properties of the session's error handling.                             *)
(***************************************************************************)

C12_UnauthenticatedShortCircuits ==
    [][\A ref \in seenRefs :
          ((AddTrackToQueue(ref) \/ RemoveFromQueue(ref) \/ RemoveTrack(ref))
              /\ ~currentUser)
              => /\ authModalOpen'
                 /\ UNCHANGED <<ops, dialogVars, allTracks, serverTracks,
                                tracksInFlight, refetchTimers, statusInFlight>>]_vars

\* a mutation was invoked on a rendered listing with nobody logged in, and
\* the login modal is open
C12_Witness ==
    /\ ~currentUser /\ authModalOpen
    /\ allTracks # <<>>
    /\ \A o \in OpIds : ops[o] = IdleOp

C14_FailureKeepsListing ==
    [][\A o \in OpIds, outcome \in {"error", "throw"} :
          MutationFailure(o, outcome) => allTracks' = allTracks]_vars

\* a failure notice of a deletion is shown over a listing that still holds
\* both tracks
C14_Witness ==
    /\ dialogShown \in {"delete_failed", "delete_unreachable"}
    /\ PathsOf(allTracks) = Filepaths
    /\ \A o \in OpIds : ops[o] = IdleOp

\* C15: a play request (togglePlay while isPlaying is false) that arrives
\* while an earlier play request is still pending on the sink issues no
\* second play on the sink and creates no session.
C15_PlayWhileStartingIsNoOp ==
    [][(TogglePlay /\ ~isPlaying /\ playPending # <<>>)
          => /\ playPending' = playPending
             /\ UNCHANGED <<hls, sess, audioSrcSet, nativeListeners>>]_vars

\* C16: whatever errors occurred before, a play request that the sink has
\* accepted while intent is Stopped leads to Live when the network and the
\* sink cooperate.
C16_PlayRequestLeadsToLive ==
    (pageLoaded /\ ~isPlaying /\ playPending # <<>>) ~> isPlaying

\* C17: setting the volume, every step of an upload and every step of a
\* queue or library mutation (the call in each of its outcomes, the answer
\* to its prompt and the handling of its response) leave the playback
\* intent and the session handle unchanged.
C17_MutationsKeepIntent ==
    [][(\/ \E value \in Volumes : SetVolume(value)
        \/ UploadFile \/ UploadSuccess \/ UploadFailure
        \/ MutationCall \/ MutationResponse
        \/ \E result \in BOOLEAN : CloseConfirmDialog(result)
        \/ CloseTimerFires)
          => UNCHANGED <<isPlaying, hls, sess>>]_vars

\* playback is live on its session while the volume has been set to 0, an
\* upload has been answered and the success notice of a deletion is shown
C17_Witness ==
    /\ isPlaying
    /\ hls # 0 /\ sess[hls] = "live"
    /\ volume = 0
    /\ currentUser /\ ~selectedFile /\ ~uploading
    /\ dialogShown = "deleted"

(***************************************************************************)
(* Properties of the error policy.                                         *)
(***************************************************************************)

\* C18: when the cooldown timer of an unclassified fatal error fires while
\* intent is Live (isPlaying) or Starting (a play request is pending), the
\* session that failed is destroyed and a fresh session is created.
C18_RebuildWhileLiveOrStarting ==
    [][\A s \in SessionIds :
          (RebuildTimerFires(s) /\ (isPlaying \/ playPending # <<>>))
              => /\ sess'[s] = "destroyed"
                 /\ Created' = Created + 1]_vars

\* C19: the handling of a network-class or media-class fatal error restarts
\* the session that raised it in place: that session stays live, no session
\* is destroyed or created, no rebuild is scheduled and the playback intent
\* does not change.
C19_RecoverInPlace ==
    [][\A s \in SessionIds, kind \in {"network", "media"} :
          HlsError(s, kind)
              => /\ sess'[s] = "live"
                 /\ sess' = sess /\ hls' = hls
                 /\ rebuildTimers' = rebuildTimers
                 /\ isPlaying' = isPlaying]_vars

\* C20: the handling of a bufferStalledError event, flagged fatal or not,
\* changes nothing of the program's state: no session is restarted,
\* recovered, destroyed or created, no rebuild timer is set, and the status
\* and the playback intent stay as they were.
C20_StallChangesNothing ==
    [][\A s \in SessionIds, kind \in {"bufferStalled", "bufferStalledFatal"} :
          HlsError(s, kind)
              => UNCHANGED <<pageLoaded, platform, isPlaying, sessVars,
                             rebuildTimers, playTimers, nativeVars, sinkVars,
                             status, playBtnAnimation, pollVars, libVars,
                             uploadVars>>]_vars

\* a bufferStalledError event has been handled during live playback, and
\* the session is still live with the live status and no rebuild timer
C20_Witness ==
    /\ stallSeen
    /\ isPlaying /\ ~paused
    /\ status = "live"
    /\ hls # 0 /\ sess[hls] = "live"
    /\ TotalRebuildTimers = 0

(***************************************************************************)
(* Properties of the playback intent.                                      *)
(***************************************************************************)

\* C21: a stop request while Live pauses the sink and sets isPlaying to
\* false without destroying or replacing the session, and the play request
\* that follows a stop runs no initHLS: no Hls instance is created and the
\* sink is not attached again.
C21_StopRetainsSession ==
    [][/\ (TogglePlay /\ isPlaying)
              => /\ paused' /\ ~isPlaying'
                 /\ UNCHANGED <<hls, sess, audioSrcSet, nativeListeners>>
       /\ (TogglePlay /\ ~isPlaying /\ userStopped)
              => UNCHANGED <<hls, sess, audioSrcSet, nativeListeners>>]_vars

\* a play request is rejected: a promise aborted by pause()/load() is
\* delivered to its catch handler, or the play() call of this step is
\* refused and leaves no promise pending (606-612, 646-651)
SinkRejectsPlay ==
    \/ PlayRejected
    \/ /\ playPending' = playPending
       /\ \/ \E s \in SessionIds : ManifestParsed(s)
          \/ LoadedMetadata
          \/ PlayTimerFires
          \/ TogglePlay /\ ~isPlaying /\ hls # 0

\* C22: when a play request is rejected while isPlaying is false, isPlaying
\* stays false, the play button is left pulsing as the click-to-start
\* affordance, and the rejection schedules nothing: no play() call, no
\* attemptPlay timer, no rebuild timer, no session and no status poll is
\* added.  With isPlaying false and nothing of an earlier request left to
\* arrive (no play pending, no attemptPlay timer, no manifest or
\* loadedmetadata due), only a click on the play button calls play() again.
C22_RejectionKeepsStopped ==
    [][/\ (SinkRejectsPlay /\ ~isPlaying)
              => /\ ~isPlaying'
                 /\ playBtnAnimation' = "pulse"
                 /\ status' \in {"click_to_listen", "play_error"}
                 /\ playPending' = playPending
                 /\ playTimers' <= playTimers
                 /\ UNCHANGED <<hls, sess, rebuildTimers, statusInFlight,
                                fastTimers>>
       /\ (/\ ~isPlaying /\ playPending = <<>> /\ playTimers = 0
           /\ manifestPending = {} /\ ~metadataPending
           /\ Len(playPending') > Len(playPending))
              => TogglePlay]_vars

\* the browser refused the autoplay of the page load: click-to-listen is
\* shown on a pulsing button, isPlaying is false and nothing is scheduled
C22_Witness ==
    /\ status = "click_to_listen"
    /\ playBtnAnimation = "pulse"
    /\ ~isPlaying
    /\ ~userStopped
    /\ hls # 0
    /\ playPending = <<>>
    /\ playAborted = <<>>
    /\ playTimers = 0
    /\ manifestPending = {}
    /\ TotalRebuildTimers = 0

\* C23: when the sink reports that playback began, for the play() of a user
\* request as for the one of autoplayStream, isPlaying becomes true, the
\* status display shows the live status, and updateMetadata is called, which
\* starts the 3-second poll loop.
C23_PlaybackBeganShowsLive ==
    [][PlayResolved => /\ isPlaying'
                       /\ status' = "live"
                       /\ statusInFlight' > statusInFlight]_vars

(***************************************************************************)
(* Properties of the poll loops.                                           *)
(***************************************************************************)

\* C24: the 3-second poll loop ends when isPlaying stops being true: in
\* every behaviour in which isPlaying is false from some point on, from some
\* point on no 3-second timer is pending, so that no poll is issued by one.
C24_FastLoopTerminates ==
    (<>[](~isPlaying)) => <>[](fastTimers = 0)

\* the user stopped playback while a 3-second timer was pending
C24_Witness ==
    /\ userStopped
    /\ ~isPlaying
    /\ fastTimers > 0

\* C25: in every state in which isPlaying is true a 3-second poll is
\* pending (its timer is set) or in flight (its fetch is not yet answered),
\* whether or not a poll has failed before and whether or not a modal is
\* open.
C25_FastLoopRunsWhileLive ==
    isPlaying => (fastTimers > 0 \/ statusInFlight > 0)

\* C26: at most one /status fetch is in flight in every reachable state,
\* whichever of the 5-second interval, the 3-second timer, the start of
\* playback and the success of an upload issued it.
C26_OnePollInFlight == statusInFlight <= 1

\* C27: the response of a status fetch that was issued before a fetch whose
\* response has already been applied is never applied: no step runs the try
\* block of updateMetadata, which writes the title, duration and elapsed
\* time baselines, for a superseded fetch.
C27_ResultsAppliedInIssueOrder ==
    [][(\E data \in PlayStatusBodies : UpdateMetadataOk(data))
          => superseded' >= superseded]_vars

C30_RenderTickAlwaysReschedules ==
    [][UpdateProgress
          => /\ frameRequests' >= 1
             /\ (isPlaying /\ currentTrackDuration > 0)
                   => progressFill' = <<DisplayPosition(now),
                                        currentTrackDuration * 1000>>
             /\ ~(isPlaying /\ currentTrackDuration > 0)
                   => progressFill' = progressFill]_vars

\* the indicator was written during live playback, the user has stopped,
\* and a frame request is still pending with the indicator as it was
C30_Witness ==
    /\ userStopped
    /\ ~isPlaying
    /\ frameRequests = 1
    /\ renderedSincePoll
    /\ progressFill[2] > 0

(***************************************************************************)
(* Properties of error handling, authentication and the dialogs.           *)
(***************************************************************************)

\* C31: whenever the ERROR handler handles a fatal error of the network
\* class or of the media class, the status display shows the reconnecting
\* status afterwards.
C31_RecoverableErrorShowsReconnecting ==
    [][\A s \in SessionIds, kind \in {"network", "media"} :
          HlsError(s, kind) => status' = "reconnecting"]_vars


\* C32: when the response of a sent queue mutation (an add to the queue or a
\* removal from the queue) is handled, a listing refetch is scheduled with
\* the 5000 ms settle delay, whether the backend reported success or failure.
C32_QueueMutationAlwaysRefetches ==
    [][\A o \in OpIds :
          (/\ ops[o].kind \in {"add", "unqueue"}
           /\ \/ MutationSuccess(o)
              \/ \E outcome \in {"error", "throw"} : MutationFailure(o, outcome))
              => refetchTimers' = Append(refetchTimers, SettleDelayMs)]_vars

(***************************************************************************)
(* The authentication globals under login, logout, token verification and  *)
(* profile updates, together with the authenticated requests.              *)
(***************************************************************************)
NextAuth ==
    \/ ~pageLoaded /\ \E stored \in BOOLEAN : CheckAuthStatus(stored)
    \/ DOMContentLoaded
    \/ pageLoaded /\ VerifyOk
    \/ pageLoaded /\ VerifyFail
    \/ pageLoaded /\ PerformLoginOk
    \/ pageLoaded /\ Logout
    \/ pageLoaded /\ ShowSettings
    \/ pageLoaded /\ ShowChangeCredentials
    \/ pageLoaded /\ HandleChangeCredentials
    \/ pageLoaded /\ \E i \in 1..MaxProfileRequests, hasUser, hasToken \in BOOLEAN :
                        ProfileResponseOk(i, hasUser, hasToken)
    \/ pageLoaded /\ \E i \in 1..MaxProfileRequests : ProfileResponseFail(i)
    \/ pageLoaded /\ ChangeHideTimerFires
    \/ pageLoaded /\ LoadTracksListOk
    \/ pageLoaded /\ \E ref \in seenRefs : AddTrackToQueue(ref)
    \/ pageLoaded /\ \E ref \in seenRefs : RemoveTrack(ref)
    \/ pageLoaded /\ \E ref \in seenRefs : RemoveFromQueue(ref)
    \/ pageLoaded /\ \E result \in BOOLEAN : CloseConfirmDialog(result)
    \/ pageLoaded /\ CloseTimerFires
    \/ pageLoaded /\ \E o \in OpIds, outcome \in {"error", "throw"} :
                        MutationFailure(o, outcome)
    \/ pageLoaded /\ HandleFileSelect(TRUE)
    \/ pageLoaded /\ UploadFile
    \/ pageLoaded /\ UploadFailure

SpecAuth == InitLib /\ [][NextAuth]_vars

\* C33: every request sent to an authenticated endpoint (/queue/add,
\* /queue/remove, /track/remove, /upload) is sent while authToken is set,
\* and in every reachable state currentUser set implies authToken set.
C33_AuthenticatedRequestsCarryToken ==
    /\ [](currentUser => authToken)
    /\ [][/\ \A o \in OpIds :
               (ops[o].pc # "request" /\ ops'[o].pc = "request") => authToken
          /\ (~uploading /\ uploading') => authToken]_vars

\* C34: at most one 3-second poll timer is pending at any time.
C34_AtMostOneFastTimer == fastTimers <= 1

\* C35: a rebuild destroys only a session that raised an unclassified fatal
\* error: while a rebuild timer is pending and isPlaying is true, the session
\* the global handle refers to (the one the timer's callback destroys) is a
\* failed one, and every rebuild step destroys a failed session.
C35_RebuildDestroysOnlyFailedSession ==
    /\ [](\A s \in SessionIds :
            (rebuildTimers[s] > 0 /\ isPlaying /\ hls # 0)
                => sess[hls] = "failed")
    /\ [][\A s \in SessionIds :
             (RebuildTimerFires(s) /\ isPlaying /\ hls # 0)
                 => sess[hls] = "failed"]_vars

\* C36: a prompt that a caller awaits keeps its resolver until it is
\* answered (so the caller is resumed when the user answers it), and a
\* caller is resumed only by the answer given to its own prompt.
C36_PromptResolvedByOwnAnswer ==
    /\ [](\A o \in OpIds : ops[o].pc = "confirm" => confirmResolve = <<o>>)
    /\ [][\A o \in OpIds :
             (ops[o].pc = "confirm" /\ ops'[o].pc # "confirm")
                 => /\ closeTimers # <<>>
                    /\ Head(closeTimers).on = <<o>>]_vars

\* C37: after every successful status poll that carries track metadata the
\* duration baseline is the duration of the track in that response, and
\* while the last applied snapshot satisfies elapsed <= duration the stored
\* elapsed baseline does not exceed the stored duration baseline.
C37_DurationBaselineFollowsPoll ==
    /\ [][statusInFlight' < statusInFlight =>
          \A data \in ClockStatusBodies :
             (data.metadata /\ UpdateMetadataOk(data))
                 => currentTrackDuration' = data.duration]_vars
    /\ []((lastSnapshot # NoSnapshot /\ lastSnapshot.e <= lastSnapshot.d)
             => serverCurrentTime <= currentTrackDuration)

(***************************************************************************)
(* The loaded page with the events of the audio element.                   *)
(***************************************************************************)
NextStatus ==
    \/ NextPlayLoaded
    \/ pageLoaded /\ AudioWaiting
    \/ pageLoaded /\ AudioPlaying
    \/ pageLoaded /\ AudioError

SpecStatus == Init /\ [][NextStatus]_vars

\* C38: in every reachable state the status display shows live only if
\* isPlaying is true, and while isPlaying is false a FRAG_LOADED, playing or
\* waiting event leaves the status display as it is.
C38_LiveOnlyWhileIntentLive ==
    /\ [](status = "live" => isPlaying)
    /\ [][(/\ ~isPlaying
           /\ \/ \E s \in SessionIds : FragLoaded(s)
              \/ AudioPlaying
              \/ AudioWaiting)
             => status' = status]_vars

\* after the user's stop a playing event was handled and the display still
\* shows the stopped status
C38_Witness ==
    /\ userStopped /\ ~isPlaying
    /\ lastMediaEvent = "playing"
    /\ status = "stopped"

\* C39: in the browsers that take the Hls branch, isPlaying true implies
\* that the session handle is set; a handle that is set is never reset to
\* null; and a rebuild timer that destroys finds a handle to destroy.
C39_HandleSetWhileLive ==
    /\ []((platform = "hlsjs" /\ isPlaying) => hls # 0)
    /\ [][(platform = "hlsjs" /\ hls # 0) => hls' # 0]_vars
    /\ [][\A s \in SessionIds :
             (platform = "hlsjs" /\ RebuildTimerFires(s) /\ isPlaying)
                 => hls # 0]_vars

\* a rebuild has replaced the session while isPlaying is true: the handle
\* refers to the new session and the old one is destroyed
C39_Witness ==
    /\ platform = "hlsjs" /\ isPlaying
    /\ hls # 0 /\ sess[hls] = "live"
    /\ \E s \in SessionIds : sess[s] = "destroyed"

============================================================================
